---- MODULE Spec2Model ----
(***************************************************************************)
(* A model of the MARA blackboard (src/main_mara_system.py, class          *)
(* Blackboard) and of the agents that react to it (src/agent/*.py).        *)
(*                                                                         *)
(* Every Python call is a frame on the calling thread's stack.  A write    *)
(* (set_data, set_status, age_data) is a frame that takes the RLock,       *)
(* mutates the store, snapshots the observers of its key and then invokes  *)
(* them one by one; an invoked observer is again a frame, whose body is a  *)
(* list of further blackboard calls.                                       *)
(***************************************************************************)
EXTENDS Integers, Sequences, FiniteSets, TLC

VARIABLES
    data,        \* Blackboard._data      : key -> value (Absent when the key is missing)
    status,      \* Blackboard._status
    observers,   \* Blackboard._observers : key -> sequence of callbacks
    lockOwner,   \* Blackboard._lock (threading.RLock): the owning thread, or "none"
    lockCount,   \* Blackboard._lock: recursion level of the owner
    stack,       \* thread -> sequence of frames, innermost call last
    budget,      \* number of inputs the environment may still supply (client calls, user answers)
    nwritten,    \* history: key -> number of writes made to the key
    seen,        \* history: callback -> key -> number of the write last delivered to it
    regLog,      \* history: key -> callbacks in the order register_observer was called
    escaped,     \* history: an exception has left a Blackboard method
    driver,      \* the __main__ block: its position, its locals and its environment
    acq          \* one call of DataAcquisitionAgent._perform_acquisition and its scraper thread

vars == <<data, status, observers, lockOwner, lockCount, stack, budget,
          nwritten, seen, regLog, escaped, driver, acq>>

-----------------------------------------------------------------------------
(* Bounds of the model *)

MaxCalls == 2

-----------------------------------------------------------------------------
(* Values *)

\* A missing key, or None.
Absent == [kind |-> "absent"]
\* A string.
Text(s) == [kind |-> "text", s |-> s]
\* The knowledge graph built by KnowledgeSynthesisAgent._perform_synthesis:
\*   age   : extracted_entities.data_age
\*   arts  : whether nodes and relationships are non-empty
\*   page  : the state of the scraped page the graph was built from
MkGraph(age, arts, page) == [kind |-> "graph", age |-> age, arts |-> arts, page |-> page]
Graph(a) == MkGraph(a, TRUE, 1)
\* The same graph built with assign_age = False: no data_age.
GraphNoAge(arts, page) == [kind |-> "graph_noage", arts |-> arts, page |-> page]
\* A dict that is not a knowledge graph.
PlainDict == [kind |-> "dict"]
\* The dict {"extracted_entities": None}.
NoneEntities == [kind |-> "dict_entities_none"]

Threads == {"t1", "t2"}
StoreKeys == {"status", "synthesized_knowledge"}
DataKeys == {"user_query", "current_task", "raw_scraped_data", "synthesized_knowledge",
             "validation_result", "final_report", "error_message", "human_feedback",
             "change_detection_report"}
Keys == DataKeys \cup {"status"}
Callbacks == {"cbA", "cbB"}
StatusValues == {"idle", "complete"}

ValuesOf(k) ==
    IF k = "status" THEN {Text(s) : s \in StatusValues}
    ELSE {Graph(0), PlainDict}

-----------------------------------------------------------------------------
(* Values of the pipeline *)

\* The query of the __main__ block, and a query without the words the keyword
\* fallback of OrchestratorAgent.run looks for.
MainQuery == Text("List me all the articles on the page with their description and the author.")
OtherQuery == Text("What is the weather today?")
Queries == {MainQuery, OtherQuery}

\* "articles", "description" and "author" all occur in the lower-cased query.
FallbackMatches(q) == q = MainQuery

\* A task dict; author and keyword tell whether the dict has that entry.
Task(type, author, keyword) ==
    [kind |-> "task", type |-> type, author |-> author, keyword |-> keyword]
WebScrapeTask == Task("web_scrape", FALSE, FALSE)

\* What the scraper returns: a dict with a content list, with or without
\* articles, of the page as it was first (1) or after an article was added (2).
Raw(arts, page) == [kind |-> "raw", arts |-> arts, page |-> page]
ScraperResults == {Raw(TRUE, 1), Raw(TRUE, 2), Raw(FALSE, 1)}

\* A plain-text feedback: the text s, the trigger phrases that occur in its
\* lower-cased form, and whether a non-empty name or keyword follows the phrase.
Feedback(s, has, arg) == [kind |-> "feedback", s |-> s, has |-> has, arg |-> arg]
\* A feedback that is the JSON dump of a decomposed task.
FeedbackJson(action, arg) == [kind |-> "json", action |-> action, arg |-> arg]

ExitFeedback == Feedback("User chose to exit.", {}, FALSE)
RefreshFeedback == Feedback("refresh data", {"refresh data"}, FALSE)

\* The answers the user may type at the prompt, other than exit.
UserInputs ==
    {Feedback("summarize key findings", {"summarize key findings"}, FALSE),
     Feedback("articles by author Marco Perini", {"articles by author"}, TRUE),
     Feedback("articles by author", {"articles by author"}, FALSE),
     Feedback("how many articles did Marco Perini publish?",
              {"how many articles did", "publish", "how many"}, TRUE),
     Feedback("how many articles by Marco Perini",
              {"how many articles by", "how many"}, TRUE),
     Feedback("show article distribution by author",
              {"show article distribution by author"}, FALSE),
     RefreshFeedback,
     Feedback("find articles about DQN", {"find articles about"}, TRUE),
     Feedback("who is the most prolific author?",
              {"who is the most prolific author", "most prolific author"}, FALSE),
     Feedback("check for new articles", {"check for new articles"}, FALSE),
     Feedback("thanks", {}, FALSE)}

\* The actions OrchestratorAgent.run passes on to process_feedback.
FeedbackActions ==
    {"summarize_findings", "filter_by_author", "visualize_author_distribution",
     "count_articles_by_author", "find_articles_by_keyword", "identify_prolific_author",
     "check_for_changes", "refresh_data"}

\* The actions whose decomposed task carries a parameter.
ParamActions == {"filter_by_author", "count_articles_by_author", "find_articles_by_keyword"}

\* A decomposed task: its action, whether it carries the parameter of the
\* action, and its reason entry.
Decomposed(action, arg) ==
    [action |-> action, arg |-> arg, reason |-> "Orchestrator: reason"]

\* What _llm_decompose_query returns from its except clauses.
DecomposeErrors == {"Orchestrator: LLM returned invalid JSON", "Orchestrator: LLM call failed"}
DecomposeError(reason) == [action |-> "unsupported_query", arg |-> FALSE, reason |-> reason]

Truthy(v) == v.kind # "absent"
\* `v and "extracted_entities" in v`
HasEntities(v) == v.kind \in {"graph", "graph_noage"}

stale_threshold == 2

-----------------------------------------------------------------------------
(* Frames and the RLock *)

NoCallback == "none"

\* A call of a Blackboard method that has not yet taken the lock.
\*   cbs, inv : the observers copied by _notify_observers, and those called so far
\*   raised   : how many of them raised
\*   notified : how many times the call entered _notify_observers
\*   acted    : the agents among inv that were handed a status of their filter
\*   seq      : the number of this write among the writes to its key
Frame(op, key, val) ==
    [op |-> op, key |-> key, val |-> val, pc |-> "lock",
     cbs |-> <<>>, inv |-> <<>>, raised |-> 0, notified |-> 0, seq |-> 0, prev |-> 0,
     cb |-> NoCallback, script |-> <<>>, wrote |-> <<>>, acted |-> <<>>]

\* An observer callback invoked with (key, val) for write number seq, the last
\* write delivered to it before being number prev; script is the rest of its body.
CallbackFrame(cb, key, val, script, seq, prev) ==
    [op |-> "callback", key |-> key, val |-> val, pc |-> "body",
     cbs |-> <<>>, inv |-> <<>>, raised |-> 0, notified |-> 0, seq |-> seq, prev |-> prev,
     cb |-> cb, script |-> script, wrote |-> <<>>, acted |-> <<>>]

\* A method that is called directly rather than by a notification
\* (OrchestratorAgent.run, OrchestratorAgent.process_feedback, the agents'
\* constructors); script is the rest of its body.
MethodFrame(name, script) ==
    [op |-> "method", key |-> "none", val |-> Absent, pc |-> "body",
     cbs |-> <<>>, inv |-> <<>>, raised |-> 0, notified |-> 0, seq |-> 0, prev |-> 0,
     cb |-> name, script |-> script, wrote |-> <<>>, acted |-> <<>>]

\* The statements a callback body is made of.
DoSetData(k, v) == [c |-> "set_data", key |-> k, val |-> v, cb |-> NoCallback]
DoSetStatus(s) == [c |-> "set_status", key |-> "status", val |-> Text(s), cb |-> NoCallback]
DoAgeData(k) == [c |-> "age_data", key |-> k, val |-> Absent, cb |-> NoCallback]
DoRegister(k, cb) == [c |-> "register_observer", key |-> k, val |-> Absent, cb |-> cb]
DoGetData(k) == [c |-> "get_data", key |-> k, val |-> Absent, cb |-> NoCallback]
DoGetStatus == [c |-> "get_status", key |-> "status", val |-> Absent, cb |-> NoCallback]
DoRaise == [c |-> "raise", key |-> "none", val |-> Absent, cb |-> NoCallback]

WriteOps == {"set_data", "set_status", "age_data"}

Depth(t) == Len(stack[t])
Top(t) == stack[t][Len(stack[t])]
Popped(t) == SubSeq(stack[t], 1, Len(stack[t]) - 1)
WithTop(t, f) == [stack[t] EXCEPT ![Len(stack[t])] = f]

\* A lock that its owner cannot take a second time.
CanAcquireOnce(t) == lockOwner = "none"

\* threading.RLock: free, or already owned by the caller.
CanAcquire(t) == lockOwner \in {"none", t}

\* `with self._lock:` entered once more by t.
Acquired(t) ==
    /\ lockOwner' = t
    /\ lockCount' = lockCount + 1

\* `with self._lock:` left once by its owner.
Released ==
    /\ lockCount' = lockCount - 1
    /\ lockOwner' = IF lockCount = 1 THEN "none" ELSE lockOwner

-----------------------------------------------------------------------------
(* class Blackboard *)

\* Whether the stored value carries extracted_entities.data_age.
HasAge(v) == v.kind = "graph"

\* The value _notify_observers hands to a callback: read from the store at the
\* moment the callback is invoked.
CallbackValue(key) == IF key # "status" THEN data[key] ELSE Text(status)

\* A loop without the try/except.
CallbackErrorEscapes == FALSE

\* The try/except around each callback in _notify_observers.
CatchesCallbackError == TRUE

\* A registration that puts the new callback first.
RegisterFirst(list, cb) == <<cb>> \o list

\* register_observer: self._observers[key].append(agent_callback)
RegisterAppend(list, cb) == Append(list, cb)

\* An age_data that increments without notifying.
NotifiesExceptAging(op, effective) == op # "age_data"

\* Whether a write method goes on to call _notify_observers; effective tells
\* whether age_data found a data_age to increment.
Notifies(op, effective) == IF op = "age_data" THEN effective ELSE TRUE

\* The frame once the method has changed the store: it has called
\* _notify_observers(key), which copies the observer list of the key under the
\* lock, unless the method does not notify.
Notifying(f, effective) ==
    IF Notifies(f.op, effective)
    THEN [f EXCEPT !.pc = "notify", !.cbs = observers[f.key], !.notified = @ + 1,
                   !.seq = IF effective THEN nwritten[f.key] + 1 ELSE 0]
    ELSE [f EXCEPT !.pc = "notify",
                   !.seq = IF effective THEN nwritten[f.key] + 1 ELSE 0]

AtLock(t, op) ==
    /\ Depth(t) > 0
    /\ Top(t).op = op
    /\ Top(t).pc = "lock"
    /\ CanAcquire(t)

set_data(t) ==
    /\ AtLock(t, "set_data")
    /\ Acquired(t)
    /\ data' = [data EXCEPT ![Top(t).key] = Top(t).val]
    /\ nwritten' = [nwritten EXCEPT ![Top(t).key] = @ + 1]
    /\ stack' = [stack EXCEPT ![t] = WithTop(t, Notifying(Top(t), TRUE))]
    /\ UNCHANGED <<status, observers, budget, seen, regLog, escaped, driver, acq>>

set_status(t) ==
    /\ AtLock(t, "set_status")
    /\ Acquired(t)
    /\ status' = Top(t).val.s
    /\ nwritten' = [nwritten EXCEPT !["status"] = @ + 1]
    /\ stack' = [stack EXCEPT ![t] = WithTop(t, Notifying(Top(t), TRUE))]
    /\ UNCHANGED <<data, observers, budget, seen, regLog, escaped, driver, acq>>

\* self._data[key]["extracted_entities"]["data_age"] += 1
AgedByTwo(old) == [old EXCEPT !.age = @ + 2]
Aged(old) == [old EXCEPT !.age = @ + 1]

\* The stack of t when the call on top raises: the call is left, and its
\* caller, if there is one, raises in turn.
Raised(t) ==
    IF Depth(t) = 1 THEN <<>>
    ELSE [Popped(t) EXCEPT ![Depth(t) - 1].script = <<DoRaise>>]

\* With a dict whose extracted_entities is None, the test
\* `"data_age" in self._data[key]["extracted_entities"]` raises TypeError: the
\* with block gives the lock back and the exception leaves age_data.
age_data(t) ==
    /\ AtLock(t, "age_data")
    /\ LET f == Top(t)
           old == data[f.key]
           new == Aged(old)
       IN IF old = NoneEntities
          THEN /\ escaped' = TRUE
               /\ stack' = [stack EXCEPT ![t] = Raised(t)]
               /\ UNCHANGED <<data, nwritten, lockOwner, lockCount>>
          ELSE /\ Acquired(t)
               /\ UNCHANGED escaped
               /\ IF HasAge(old)
                  THEN /\ data' = [data EXCEPT ![f.key] = new]
                       /\ nwritten' = [nwritten EXCEPT ![f.key] = @ + 1]
                       /\ stack' = [stack EXCEPT ![t] =
                              WithTop(t, Notifying([f EXCEPT !.val = new], TRUE))]
                  ELSE /\ stack' = [stack EXCEPT ![t] = WithTop(t, Notifying(f, FALSE))]
                       /\ UNCHANGED <<data, nwritten>>
    /\ UNCHANGED <<status, observers, budget, seen, regLog, driver, acq>>

get_data(t) ==
    /\ AtLock(t, "get_data")
    /\ stack' = [stack EXCEPT ![t] = Popped(t)]
    /\ UNCHANGED <<data, status, observers, lockOwner, lockCount, budget,
                   nwritten, seen, regLog, escaped, driver, acq>>

get_status(t) ==
    /\ AtLock(t, "get_status")
    /\ stack' = [stack EXCEPT ![t] = Popped(t)]
    /\ UNCHANGED <<data, status, observers, lockOwner, lockCount, budget,
                   nwritten, seen, regLog, escaped, driver, acq>>

register_observer(t) ==
    /\ AtLock(t, "register_observer")
    /\ observers' = [observers EXCEPT ![Top(t).key] = RegisterAppend(@, Top(t).cb)]
    /\ regLog' = [regLog EXCEPT ![Top(t).key] = Append(@, Top(t).cb)]
    /\ seen' = [seen EXCEPT ![Top(t).cb][Top(t).key] = nwritten[Top(t).key]]
    /\ stack' = [stack EXCEPT ![t] = Popped(t)]
    /\ UNCHANGED <<data, status, lockOwner, lockCount, budget, nwritten, escaped, driver, acq>>

\* What a callback does when it is called: the statements it runs, and how many
\* inputs it takes from the environment.
Body(script, cost) == [script |-> script, cost |-> cost]

\* The bodies a client callback may run when it is handed (key, val): it
\* returns, raises, or calls back into the store.
ClientBodies ==
    LET calls == {DoSetStatus(v) : v \in StatusValues}
                 \cup {DoSetData("synthesized_knowledge", v) :
                          v \in ValuesOf("synthesized_knowledge")}
                 \cup {DoAgeData("synthesized_knowledge")}
                 \cup {DoGetData("synthesized_knowledge"), DoGetStatus}
    IN {Body(<<>>, 0), Body(<<DoRaise>>, 0)}
       \cup (IF budget > 0 THEN {Body(<<c>>, 1) : c \in calls} ELSE {})

-----------------------------------------------------------------------------
(* The agents (src/agent/*.py): what each does when it is called.  An agent  *)
(* reads the store when it is entered and then writes; its body is the list  *)
(* of those writes.                                                          *)

Only(script) == {Body(script, 0)}

\* A stage that gives up with the status failed, whatever its own failure status.
FailureAsFailed(msg, st) ==
    <<DoSetData("error_message", Text(msg)), DoSetStatus("failed"),
      DoSetData("final_report", Text(msg))>>

\* A stage that gives up without a report of its own.
FailureWithoutReport(msg, st) ==
    <<DoSetData("error_message", Text(msg)), DoSetStatus(st)>>

\* The three writes of a stage that gives up.
Failure(msg, st) ==
    <<DoSetData("error_message", Text(msg)), DoSetStatus(st),
      DoSetData("final_report", Text(msg))>>

ReportAfterStatus(title) ==
    <<DoSetStatus("complete"), DoSetData("final_report", Text(title))>>

Report(title) == <<DoSetData("final_report", Text(title)), DoSetStatus("complete")>>

\* OrchestratorAgent._llm_decompose_query: without a client a dict that has no
\* action; with one, whatever the model answers, or, when the call fails or the
\* answer is not JSON, unsupported_query with the error as its reason.
llm_decompose_query ==
    IF ~driver.api_key
    THEN {Decomposed("none", FALSE)}
    ELSE {Decomposed("web_scrape", FALSE), Decomposed("unsupported_query", FALSE),
          Decomposed("none", FALSE)}
         \cup {Decomposed(a, FALSE) : a \in FeedbackActions}
         \cup {Decomposed(a, TRUE) : a \in ParamActions}
         \cup {DecomposeError(e) : e \in DecomposeErrors}

\* A delegation that leaves current_task as it is.
DelegateStatusOnly == <<DoSetStatus("task_delegated_to_data_acquisition")>>

Delegate == <<DoSetData("current_task", WebScrapeTask),
              DoSetStatus("task_delegated_to_data_acquisition")>>

Unsupported(reason) ==
    <<DoSetStatus("unsupported_query"), DoSetData("final_report", Text(reason))>>

\* OrchestratorAgent.run
run(q, d) ==
    <<DoSetData("user_query", q)>> \o
    (IF d.action = "web_scrape" THEN Delegate
     ELSE IF d.action = "unsupported_query" THEN Unsupported(d.reason)
     ELSE IF d.action \in FeedbackActions
          THEN <<DoSetData("human_feedback", FeedbackJson(d.action, d.arg)),
                 DoSetStatus("awaiting_re_orchestration")>>
     ELSE IF FallbackMatches(q) THEN Delegate
     ELSE Unsupported("Orchestrator: The initial query could not be automatically decomposed"))

\* A request whose status is written before its task.
RequestStatusFirst(task, st) == <<DoSetStatus(st), DoSetData("current_task", task)>>
Request(task, st) == <<DoSetData("current_task", task), DoSetStatus(st)>>
\* A feedback without a follow-up that is dropped without a status.
NoFollowUpSilent == <<>>
NoFollowUp == <<DoSetStatus("complete_with_feedback")>>

\* OrchestratorAgent.process_feedback, feedback that parses as JSON
FeedbackFromJson(fb) ==
    IF fb.action = "summarize_findings"
    THEN Request(Task("summarize_findings", FALSE, FALSE), "summarize_requested")
    ELSE IF fb.action = "filter_by_author"
    THEN IF fb.arg THEN Request(Task("filter_by_author", TRUE, FALSE), "filter_by_author_requested")
         ELSE NoFollowUp
    ELSE IF fb.action = "visualize_author_distribution"
    THEN Request(Task("visualize_author_distribution", FALSE, FALSE), "visualize_requested")
    ELSE IF fb.action = "refresh_data" THEN Delegate
    ELSE IF fb.action = "count_articles_by_author"
    THEN IF fb.arg THEN Request(Task("count_articles_by_author", TRUE, FALSE), "query_requested")
         ELSE NoFollowUp
    ELSE IF fb.action = "find_articles_by_keyword"
    THEN IF fb.arg THEN Request(Task("find_articles_by_keyword", FALSE, TRUE), "query_requested")
         ELSE NoFollowUp
    ELSE IF fb.action = "identify_prolific_author"
    THEN Request(Task("identify_prolific_author", FALSE, FALSE), "prolific_author_requested")
    ELSE IF fb.action = "check_for_changes"
    THEN Request(Task("check_for_changes", FALSE, FALSE), "check_for_changes_requested")
    ELSE NoFollowUp

\* OrchestratorAgent.process_feedback, plain text: the first matching phrase wins.
FeedbackFromText(fb) ==
    LET did == {"how many articles did", "publish"} \subseteq fb.has /\ fb.arg
        by == ~did /\ "how many articles by" \in fb.has /\ fb.arg
    IN IF did \/ by
       THEN Request(Task("count_articles_by_author", TRUE, FALSE), "query_requested")
       ELSE IF "summarize key findings" \in fb.has
       THEN Request(Task("summarize_findings", FALSE, FALSE), "summarize_requested")
       ELSE IF "articles by author" \in fb.has /\ "how many" \notin fb.has
       THEN IF fb.arg
            THEN Request(Task("filter_by_author", TRUE, FALSE), "filter_by_author_requested")
            ELSE NoFollowUp
       ELSE IF "show article distribution by author" \in fb.has
       THEN Request(Task("visualize_author_distribution", FALSE, FALSE), "visualize_requested")
       ELSE IF "refresh data" \in fb.has THEN Delegate
       ELSE IF "find articles about" \in fb.has
       THEN IF fb.arg
            THEN Request(Task("find_articles_by_keyword", FALSE, TRUE), "query_requested")
            ELSE NoFollowUp
       ELSE IF "who is the most prolific author" \in fb.has \/ "most prolific author" \in fb.has
       THEN Request(Task("identify_prolific_author", FALSE, FALSE), "prolific_author_requested")
       ELSE IF "check for new articles" \in fb.has \/ "detect changes" \in fb.has
       THEN Request(Task("check_for_changes", FALSE, FALSE), "check_for_changes_requested")
       ELSE NoFollowUp

\* OrchestratorAgent.process_feedback
process_feedback ==
    LET fb == data["human_feedback"]
    IN IF fb.kind = "json" THEN FeedbackFromJson(fb)
       ELSE IF fb.kind = "feedback" THEN FeedbackFromText(fb)
       ELSE <<DoRaise>>

\* DataAcquisitionAgent._perform_acquisition: None without an API key or when
\* every attempt failed, else what the scraper returned.
perform_acquisition ==
    IF ~driver.api_key THEN {Absent} ELSE ScraperResults \cup {Absent}

\* DataAcquisitionAgent.execute_task, from `if raw_data:` on.
execute_task_result(raw_data) ==
    IF Truthy(raw_data)
    THEN <<DoSetData("raw_scraped_data", raw_data), DoSetStatus("raw_data_acquired")>>
    ELSE Failure("Data Acquisition Agent failed to acquire raw data", "data_acquisition_failed")

\* DataAcquisitionAgent.execute_task
DataAcquisitionAgent_execute_task ==
    LET task == data["current_task"]
    IN IF task.kind # "task" \/ task.type # "web_scrape"
       THEN Only(Failure("Error: No valid web_scrape task found on blackboard",
                         "data_acquisition_failed"))
       ELSE {Body(execute_task_result(raw), 0) : raw \in perform_acquisition}

\* KnowledgeSynthesisAgent._perform_synthesis
perform_synthesis(raw, assign_age) ==
    IF ~Truthy(raw) THEN Absent
    ELSE IF assign_age THEN MkGraph(0, raw.arts, raw.page)
    ELSE GraphNoAge(raw.arts, raw.page)

\* KnowledgeSynthesisAgent.execute_task
KnowledgeSynthesisAgent_execute_task ==
    LET raw == data["raw_scraped_data"]
        graph == perform_synthesis(raw, TRUE)
    IN IF Truthy(raw)
       THEN IF Truthy(graph)
            THEN Only(<<DoSetData("synthesized_knowledge", graph),
                        DoSetStatus("knowledge_synthesized")>>)
            ELSE Only(Failure("Knowledge Synthesis Agent failed to perform synthesis.",
                              "knowledge_synthesis_failed"))
       ELSE Only(Failure("No raw data found for synthesis.", "knowledge_synthesis_failed"))

Validation(ok) == [kind |-> "validation", is_valid |-> ok]

\* DataValidationAgent.execute_task
DataValidationAgent_execute_task ==
    LET graph == data["synthesized_knowledge"]
    IN IF HasEntities(graph)
       THEN Only(<<DoSetData("validation_result", Validation(graph.arts)),
                   DoSetStatus("data_validated")>>)
       ELSE Only(Failure("No valid knowledge graph structure found for validation.",
                         "data_validation_failed"))

\* task.get("from_data_key", "synthesized_knowledge")
FromDataKey(task) ==
    IF task.type \in {"filter_by_author", "visualize_author_distribution"}
    THEN "raw_scraped_data" ELSE "synthesized_knowledge"

\* AnalysisAndReportingAgent.execute_summary_task
execute_summary_task ==
    LET task == data["current_task"]
    IN IF ~Truthy(task)
       THEN Only(<<DoSetData("error_message", Text("ERROR: 'current_task' is None.")),
                   DoSetStatus("failed"),
                   DoSetData("final_report", Text("Error: Cannot generate summary"))>>)
       ELSE IF HasEntities(data[FromDataKey(task)])
       THEN Only(Report("### MARA Research Report - Key Findings Summary"))
       ELSE Only(Failure("No structured knowledge graph available to summarize.", "failed"))

\* AnalysisAndReportingAgent.execute_filter_by_author_task
execute_filter_by_author_task ==
    LET task == data["current_task"]
    IN IF ~Truthy(task) THEN Only(Failure("ERROR: 'current_task' is None.", "failed"))
       ELSE IF ~task.author THEN Only(<<DoRaise>>)
       ELSE Only(Report("### MARA Research Report - Articles by Author"))

\* AnalysisAndReportingAgent.execute_visualization_task
execute_visualization_task ==
    IF ~Truthy(data["current_task"]) THEN Only(Failure("ERROR: 'current_task' is None.", "failed"))
    ELSE Only(Report("### MARA Research Report - Article Distribution by Author"))

\* AnalysisAndReportingAgent.execute_prolific_author_task
execute_prolific_author_task ==
    IF ~Truthy(data["current_task"]) THEN Only(<<DoRaise>>)
    ELSE IF ~HasEntities(data["synthesized_knowledge"])
    THEN Only(<<DoSetData("final_report", Text("### MARA Research Report - Most Prolific Author")),
                DoSetStatus("failed")>>)
    ELSE Only(Report("### MARA Research Report - Most Prolific Author"))

\* AnalysisAndReportingAgent.execute_failure_report
execute_failure_report ==
    Only(<<DoSetData("final_report", Text("### MARA Research Report - Process Failed"))>>)

StageFailures == {"data_acquisition_failed", "knowledge_synthesis_failed", "data_validation_failed"}

\* AnalysisAndReportingAgent.on_blackboard_change
AnalysisAndReportingAgent(key, val) ==
    IF key # "status" THEN Only(<<>>)
    ELSE IF val = Text("data_validated") THEN Only(Report("### MARA Research Report"))
    ELSE IF val = Text("summarize_requested") THEN execute_summary_task
    ELSE IF val = Text("filter_by_author_requested") THEN execute_filter_by_author_task
    ELSE IF val = Text("visualize_requested") THEN execute_visualization_task
    ELSE IF val = Text("prolific_author_requested") THEN execute_prolific_author_task
    ELSE IF val \in {Text("changes_detected"), Text("no_changes_detected")}
    THEN Only(Report("### MARA Change Monitoring Update"))
    ELSE IF val \in {Text(s) : s \in StageFailures \cup {"unsupported_query", "failed"}}
    THEN execute_failure_report
    ELSE Only(<<>>)

\* The comparison of _check_for_staleness.
StaleAboveThreshold(current_age) == current_age > stale_threshold
Stale(current_age) == current_age >= stale_threshold

\* DataRefreshAgent._check_for_staleness
check_for_staleness ==
    LET graph == data["synthesized_knowledge"]
    IN IF graph = NoneEntities THEN Only(<<DoRaise>>)
       ELSE IF HasAge(graph) /\ Stale(graph.age)
       THEN Only(<<DoSetData("human_feedback", RefreshFeedback),
                   DoSetStatus("awaiting_re_orchestration")>>)
       ELSE Only(<<>>)

\* A monitor that looks at the graph only when the status becomes complete.
DataRefreshAgentOnStatusOnly(key, val) ==
    IF key = "status" /\ val = Text("complete") THEN check_for_staleness ELSE Only(<<>>)

\* DataRefreshAgent.on_blackboard_change
DataRefreshAgent(key, val) ==
    IF key = "status" /\ val = Text("complete") THEN check_for_staleness
    ELSE IF key = "synthesized_knowledge" /\ Truthy(val) THEN check_for_staleness
    ELSE Only(<<>>)

PromptStatuses ==
    {"complete", "failed", "timed_out", "unsupported_query", "complete_with_feedback",
     "changes_detected", "no_changes_detected"}

\* HumanInTheLoopAgent.execute_feedback_prompt: the user types exit, or a request.
execute_feedback_prompt ==
    {Body(<<DoSetData("human_feedback", ExitFeedback)>>, 0)}
    \cup (IF budget > 0
          THEN {Body(<<DoSetData("human_feedback", u),
                       DoSetStatus("awaiting_re_orchestration")>>, 1) : u \in UserInputs}
          ELSE {})

\* KnowledgeQueryAgent.execute_query
execute_query ==
    LET task == data["current_task"]
    IN IF ~Truthy(task) THEN Only(<<DoRaise>>)
       ELSE IF ~HasEntities(data["synthesized_knowledge"]) THEN Only(<<DoRaise>>)
       ELSE IF task.type = "count_articles_by_author"
       THEN IF task.author THEN Only(Report("### MARA Research Report - Knowledge Query Result"))
            ELSE Only(<<DoRaise>>)
       ELSE IF task.type = "find_articles_by_keyword"
       THEN IF task.keyword THEN Only(Report("### MARA Research Report - Knowledge Query Result"))
            ELSE Only(<<DoRaise>>)
       ELSE Only(<<DoSetData("error_message", Text("Unknown query type"))>>
                 \o Report("### MARA Research Report - Knowledge Query Result"))

\* The titles of the articles of a graph: the page had one article at first
\* and has two after the change.
Titles(graph) == IF graph.arts THEN 1..graph.page ELSE {}

\* A change report that also stores a fresh graph.
ChangeReportStoringGraph(text, st) ==
    <<DoSetData("synthesized_knowledge", Graph(0)),
      DoSetData("change_detection_report", Text(text)), DoSetStatus(st)>>

ChangeReport(text, st) ==
    <<DoSetData("change_detection_report", Text(text)), DoSetStatus(st)>>

\* ChangeDetectionAgent.execute_change_detection
execute_change_detection ==
    LET current == data["synthesized_knowledge"]
    IN IF ~HasEntities(current)
       THEN Only(ChangeReport("Change Detection: No existing knowledge graph found",
                              "no_changes_detected"))
       ELSE {Body(IF ~Truthy(raw)
                  THEN ChangeReport("Change Detection: Failed to acquire fresh data",
                                    "no_changes_detected")
                  ELSE IF Titles(perform_synthesis(raw, TRUE)) \ Titles(current) # {}
                  THEN ChangeReport("### MARA Change Detection Report: new", "changes_detected")
                  ELSE ChangeReport("### MARA Change Detection Report: none",
                                    "no_changes_detected"), 0) : raw \in perform_acquisition}

Agents ==
    {"DataAcquisitionAgent", "KnowledgeSynthesisAgent", "DataValidationAgent",
     "AnalysisAndReportingAgent", "DataRefreshAgent", "HumanInTheLoopAgent",
     "KnowledgeQueryAgent", "ChangeDetectionAgent"}

\* The status values on which the on_blackboard_change of an agent acts.
Filter(cb) ==
    IF cb = "DataAcquisitionAgent" THEN {"task_delegated_to_data_acquisition"}
    ELSE IF cb = "KnowledgeSynthesisAgent" THEN {"raw_data_acquired"}
    ELSE IF cb = "DataValidationAgent" THEN {"knowledge_synthesized"}
    ELSE IF cb = "AnalysisAndReportingAgent"
    THEN {"data_validated", "summarize_requested", "filter_by_author_requested",
          "visualize_requested", "prolific_author_requested", "changes_detected",
          "no_changes_detected", "unsupported_query", "failed"} \cup StageFailures
    ELSE IF cb = "DataRefreshAgent" THEN {"complete"}
    ELSE IF cb = "HumanInTheLoopAgent" THEN PromptStatuses
    ELSE IF cb = "KnowledgeQueryAgent" THEN {"query_requested"}
    ELSE IF cb = "ChangeDetectionAgent" THEN {"check_for_changes_requested"}
    ELSE {}

Triggered(cb, key, val) == key = "status" /\ val.kind = "text" /\ val.s \in Filter(cb)

\* DataAcquisitionAgent.on_blackboard_change
DataAcquisitionAgent(key, val) ==
    IF key = "status" /\ val = Text("task_delegated_to_data_acquisition")
    THEN DataAcquisitionAgent_execute_task ELSE Only(<<>>)

\* KnowledgeSynthesisAgent.on_blackboard_change
KnowledgeSynthesisAgent(key, val) ==
    IF key = "status" /\ val = Text("raw_data_acquired")
    THEN KnowledgeSynthesisAgent_execute_task ELSE Only(<<>>)

\* DataValidationAgent.on_blackboard_change
DataValidationAgent(key, val) ==
    IF key = "status" /\ val = Text("knowledge_synthesized")
    THEN DataValidationAgent_execute_task ELSE Only(<<>>)

\* HumanInTheLoopAgent.on_blackboard_change
HumanInTheLoopAgent(key, val) ==
    IF key = "status" /\ val \in {Text("complete"), Text("failed"), Text("timed_out"),
                                   Text("unsupported_query")}
    THEN execute_feedback_prompt
    ELSE IF key = "status" /\ val = Text("complete_with_feedback") THEN execute_feedback_prompt
    ELSE IF key = "status" /\ val \in {Text("changes_detected"), Text("no_changes_detected")}
    THEN execute_feedback_prompt
    ELSE Only(<<>>)

\* A query agent that runs its query on every status.
KnowledgeQueryAgentOnAnyStatus(key, val) ==
    IF key = "status" THEN execute_query ELSE Only(<<>>)

\* KnowledgeQueryAgent.on_blackboard_change
KnowledgeQueryAgent(key, val) ==
    IF key = "status" /\ val = Text("query_requested") THEN execute_query ELSE Only(<<>>)

\* ChangeDetectionAgent.on_blackboard_change
ChangeDetectionAgent(key, val) ==
    IF key = "status" /\ val = Text("check_for_changes_requested")
    THEN execute_change_detection ELSE Only(<<>>)

\* The callback each agent registers.
AgentBodies(cb, key, val) ==
    IF cb = "DataAcquisitionAgent" THEN DataAcquisitionAgent(key, val)
    ELSE IF cb = "KnowledgeSynthesisAgent" THEN KnowledgeSynthesisAgent(key, val)
    ELSE IF cb = "DataValidationAgent" THEN DataValidationAgent(key, val)
    ELSE IF cb = "AnalysisAndReportingAgent" THEN AnalysisAndReportingAgent(key, val)
    ELSE IF cb = "DataRefreshAgent" THEN DataRefreshAgent(key, val)
    ELSE IF cb = "HumanInTheLoopAgent" THEN HumanInTheLoopAgent(key, val)
    ELSE IF cb = "KnowledgeQueryAgent" THEN KnowledgeQueryAgent(key, val)
    ELSE ChangeDetectionAgent(key, val)

AllCallbacks == Callbacks \cup Agents

Bodies(cb, key, val) ==
    IF cb \in Callbacks THEN ClientBodies ELSE AgentBodies(cb, key, val)

-----------------------------------------------------------------------------
(* class Blackboard, continued *)

\* _notify_observers, one turn of `for callback in callbacks_to_run`: the value
\* is read and the callback is called with it.
notify_observers(t) ==
    /\ Depth(t) > 0
    /\ Top(t).op \in WriteOps
    /\ Top(t).pc = "notify"
    /\ Len(Top(t).inv) < Len(Top(t).cbs)
    /\ LET f == Top(t)
           cb == f.cbs[Len(f.inv) + 1]
           v == CallbackValue(f.key)
       IN /\ \E body \in Bodies(cb, f.key, v) :
                /\ stack' = [stack EXCEPT ![t] =
                       Append(WithTop(t, [f EXCEPT !.inv = Append(@, cb),
                                                   !.acted = IF Triggered(cb, f.key, v)
                                                             THEN Append(@, <<cb, v.s>>)
                                                             ELSE @]),
                              CallbackFrame(cb, f.key, v, body.script, f.seq, seen[cb][f.key]))]
                /\ budget' = budget - body.cost
          /\ seen' = [seen EXCEPT ![cb][f.key] = f.seq]
    /\ UNCHANGED <<data, status, observers, lockOwner, lockCount, nwritten,
                   regLog, escaped, driver, acq>>

\* The body of a callback, or of a method of the driver or the orchestrator,
\* reaches its next call of a Blackboard method.
CallbackCall(t) ==
    /\ Depth(t) > 0
    /\ Top(t).op \in {"callback", "method"}
    /\ Top(t).script # <<>>
    /\ Head(Top(t).script).c # "raise"
    /\ LET f == Top(t)
           c == Head(f.script)
           g == [f EXCEPT !.script = Tail(@),
                          !.wrote = IF c.c = "set_status" THEN Append(@, c.val.s) ELSE @]
       IN stack' = [stack EXCEPT ![t] =
              Append(WithTop(t, g), [Frame(c.c, c.key, c.val) EXCEPT !.cb = c.cb])]
    /\ UNCHANGED <<data, status, observers, lockOwner, lockCount, budget,
                   nwritten, seen, regLog, escaped, driver, acq>>

\* The callback body raises.  The exception reaches the `except Exception` of
\* the _notify_observers turn that called it; without a handler it would leave
\* every enclosing call, each `with self._lock` releasing on the way out.
CallbackRaise(t) ==
    /\ Depth(t) > 0
    /\ Top(t).op = "callback"
    /\ Top(t).script # <<>>
    /\ Head(Top(t).script).c = "raise"
    /\ IF CatchesCallbackError
       THEN /\ stack' = [stack EXCEPT ![t] =
                   [Popped(t) EXCEPT ![Len(stack[t]) - 1].raised = @ + 1]]
            /\ UNCHANGED <<lockOwner, lockCount, escaped>>
       ELSE /\ stack' = [stack EXCEPT ![t] = <<>>]
            /\ lockOwner' = "none"
            /\ lockCount' = 0
            /\ escaped' = TRUE
    /\ UNCHANGED <<data, status, observers, budget, nwritten, seen, regLog, driver, acq>>

\* The body ends.
CallbackReturn(t) ==
    /\ Depth(t) > 0
    /\ Top(t).op \in {"callback", "method"}
    /\ Top(t).script = <<>>
    /\ stack' = [stack EXCEPT ![t] = Popped(t)]
    /\ UNCHANGED <<data, status, observers, lockOwner, lockCount, budget,
                   nwritten, seen, regLog, escaped, driver, acq>>

\* The loop of _notify_observers is over (or was never entered); the write
\* method leaves its `with self._lock` and returns.
WriteReturn(t) ==
    /\ Depth(t) > 0
    /\ Top(t).op \in WriteOps
    /\ Top(t).pc = "notify"
    /\ Len(Top(t).inv) = Len(Top(t).cbs)
    /\ Released
    /\ stack' = [stack EXCEPT ![t] = Popped(t)]
    /\ UNCHANGED <<data, status, observers, budget, nwritten, seen, regLog, escaped, driver, acq>>

-----------------------------------------------------------------------------
(* The store under arbitrary clients: two threads call its methods *)

\* The first thread sets the store up and uses every write method; the second
\* thread reads, and writes the status.
MainThread == "t1"

ClientCalls(t) ==
    {Frame("set_status", "status", Text(v)) : v \in StatusValues}
    \cup (IF t = MainThread
          THEN UNION {{Frame("set_data", k, v) : v \in ValuesOf(k)} : k \in StoreKeys}
               \cup {Frame("age_data", k, Absent) : k \in StoreKeys}
          ELSE {})

ClientReads ==
    {Frame("get_data", k, Absent) : k \in StoreKeys}
    \cup {Frame("get_status", "status", Absent)}

ClientWrite(t) ==
    /\ Depth(t) = 0
    /\ budget > 0
    /\ \E f \in ClientCalls(t) : stack' = [stack EXCEPT ![t] = <<f>>]
    /\ budget' = budget - 1
    /\ UNCHANGED <<data, status, observers, lockOwner, lockCount, nwritten,
                   seen, regLog, escaped, driver, acq>>

ClientRead(t) ==
    /\ Depth(t) = 0
    /\ t # MainThread
    /\ \E f \in ClientReads : stack' = [stack EXCEPT ![t] = <<f>>]
    /\ UNCHANGED <<data, status, observers, lockOwner, lockCount, budget,
                   nwritten, seen, regLog, escaped, driver, acq>>

Registered(k) == {observers[k][i] : i \in 1..Len(observers[k])}

\* Subscriptions are made while the system is set up, before the first write.
ClientRegister(t) ==
    /\ Depth(t) = 0
    /\ t = MainThread
    /\ budget = MaxCalls
    /\ \E k \in StoreKeys : \E cb \in Callbacks \ Registered(k) :
          stack' = [stack EXCEPT ![t] =
              <<[Frame("register_observer", k, Absent) EXCEPT !.cb = cb]>>]
    /\ UNCHANGED <<data, status, observers, lockOwner, lockCount, budget,
                   nwritten, seen, regLog, escaped, driver, acq>>

\* The driver of the pipeline is not running.
\* No call of _perform_acquisition is followed step by step.
AcquisitionOff ==
    [pc |-> "off", api_key |-> FALSE, max_retries |-> 0, retry_delay |-> 0, attempt |-> 0,
     worker |-> "none", hangs |-> FALSE, pending |-> "none", value |-> Absent,
     result |-> Absent, error |-> "none", slept |-> 0, events |-> <<>>]

DriverOff == [pc |-> "off", run_cycles |-> 0, current_status |-> "idle", api_key |-> FALSE]

\* Blackboard.__init__
Init ==
    /\ data = [k \in Keys |-> Absent]
    /\ status = "idle"
    /\ observers = [k \in Keys |-> <<>>]
    /\ lockOwner = "none"
    /\ lockCount = 0
    /\ stack = [t \in Threads |-> <<>>]
    /\ budget = MaxCalls
    /\ nwritten = [k \in Keys |-> 0]
    /\ seen = [cb \in AllCallbacks |-> [k \in Keys |-> 0]]
    /\ regLog = [k \in Keys |-> <<>>]
    /\ escaped = FALSE
    /\ driver = DriverOff
    /\ acq = AcquisitionOff

Next ==
    \E t \in Threads :
        \/ ClientWrite(t)
        \/ ClientRead(t)
        \/ ClientRegister(t)
        \/ set_data(t)
        \/ set_status(t)
        \/ age_data(t)
        \/ get_data(t)
        \/ get_status(t)
        \/ register_observer(t)
        \/ notify_observers(t)
        \/ CallbackCall(t)
        \/ CallbackRaise(t)
        \/ CallbackReturn(t)
        \/ WriteReturn(t)

Spec == Init /\ [][Next]_vars

\* The steps thread t takes inside the store and its callbacks.
StoreStep(t) ==
    \/ set_data(t)
    \/ set_status(t)
    \/ age_data(t)
    \/ get_data(t)
    \/ get_status(t)
    \/ register_observer(t)
    \/ notify_observers(t)
    \/ CallbackCall(t)
    \/ CallbackRaise(t)
    \/ CallbackReturn(t)
    \/ WriteReturn(t)

\* The same clients, each thread running on whenever it can: a thread that is
\* inside a call and not waiting for the lock takes its next step.
SpecFair == Spec /\ \A t \in Threads : WF_vars(StoreStep(t))

-----------------------------------------------------------------------------
(* The pipeline: the __main__ block of src/main_mara_system.py drives the    *)
(* store and the agents on one thread                                        *)

MaxCycles == 4
MaxPrompts == 1

\* The constructors of the agents, in the order __main__ runs them.
Constructors ==
    <<DoRegister("status", "DataAcquisitionAgent"),
      DoRegister("status", "KnowledgeSynthesisAgent"),
      DoRegister("status", "DataValidationAgent"),
      DoRegister("status", "AnalysisAndReportingAgent"),
      DoRegister("status", "DataRefreshAgent"),
      DoRegister("synthesized_knowledge", "DataRefreshAgent"),
      DoRegister("status", "HumanInTheLoopAgent"),
      DoRegister("status", "KnowledgeQueryAgent"),
      DoRegister("status", "ChangeDetectionAgent")>>

\* A loop that ages the graph while a feedback waits to be processed.
AgesWhileAwaiting ==
    {"task_delegated_to_data_acquisition",
     "summarize_requested", "filter_by_author_requested", "visualize_requested",
     "query_requested", "check_for_changes_requested", "prolific_author_requested"}

\* The statuses under which the loop does not age the graph.
NoAgingStatuses ==
    {"awaiting_re_orchestration", "task_delegated_to_data_acquisition",
     "summarize_requested", "filter_by_author_requested", "visualize_requested",
     "query_requested", "check_for_changes_requested", "prolific_author_requested"}

\* human_feedback.lower() == "exit"
IsExit(v) == v.kind = "feedback" /\ v.s = "exit"

Call(f) == stack' = [stack EXCEPT ![MainThread] = <<f>>]

AtMain(pc) == driver.pc = pc /\ Depth(MainThread) = 0

\* __main__: the blackboard exists; the agents are constructed.
MainConstruct ==
    /\ AtMain("start")
    /\ Call(MethodFrame("__init__", Constructors))
    /\ driver' = [driver EXCEPT !.pc = "constructed"]
    /\ UNCHANGED <<data, status, observers, lockOwner, lockCount, budget,
                   nwritten, seen, regLog, escaped, acq>>

\* __main__: orchestrator.run(user_initial_query)
MainRun ==
    /\ AtMain("constructed")
    /\ \E q \in Queries : \E d \in llm_decompose_query :
          Call(MethodFrame("run", run(q, d)))
    /\ driver' = [driver EXCEPT !.pc = "loop"]
    /\ UNCHANGED <<data, status, observers, lockOwner, lockCount, budget,
                   nwritten, seen, regLog, escaped, acq>>

\* The loop, from reading the status to the aging of the graph.
MainLoopAge ==
    /\ AtMain("loop")
    /\ driver.run_cycles < MaxCycles
    /\ driver' = [driver EXCEPT !.pc = "aged", !.current_status = status]
    /\ IF /\ driver.run_cycles > 0
          /\ Truthy(data["synthesized_knowledge"])
          /\ status \notin NoAgingStatuses
       THEN Call(Frame("age_data", "synthesized_knowledge", Absent))
       ELSE UNCHANGED stack
    /\ UNCHANGED <<data, status, observers, lockOwner, lockCount, budget,
                   nwritten, seen, regLog, escaped, acq>>

\* The loop: the feedback is processed when the status read asks for it.
MainLoopFeedback ==
    /\ AtMain("aged")
    /\ driver' = [driver EXCEPT !.pc = "fed"]
    /\ IF driver.current_status = "awaiting_re_orchestration"
       THEN Call(MethodFrame("process_feedback", process_feedback))
       ELSE IF driver.current_status = "age_data_requested"
       THEN Call(MethodFrame("age_data_requested",
                    <<DoAgeData("synthesized_knowledge"), DoSetStatus("complete")>>))
       ELSE UNCHANGED stack
    /\ UNCHANGED <<data, status, observers, lockOwner, lockCount, budget,
                   nwritten, seen, regLog, escaped, acq>>

\* The loop: the exits, the timeout, the next cycle.
MainLoopCheck ==
    /\ AtMain("fed")
    /\ IF \/ /\ IsExit(data["human_feedback"])
             /\ driver.current_status \in
                   {"complete", "failed", "unsupported_query", "complete_with_feedback",
                    "changes_detected", "no_changes_detected"}
          \/ driver.current_status \in {"failed", "unsupported_query", "timed_out"}
       THEN /\ driver' = [driver EXCEPT !.pc = "finished"]
            /\ UNCHANGED stack
       ELSE \/ /\ Call(Frame("set_status", "status", Text("timed_out")))
               /\ driver' = [driver EXCEPT !.pc = "timed_out"]
            \/ /\ driver' = [driver EXCEPT !.pc = "loop", !.run_cycles = @ + 1]
               /\ UNCHANGED stack
    /\ UNCHANGED <<data, status, observers, lockOwner, lockCount, budget,
                   nwritten, seen, regLog, escaped, acq>>

\* The break after set_status("timed_out").
MainTimedOut ==
    /\ AtMain("timed_out")
    /\ driver' = [driver EXCEPT !.pc = "finished"]
    /\ UNCHANGED <<data, status, observers, lockOwner, lockCount, stack, budget,
                   nwritten, seen, regLog, escaped, acq>>

InitMara ==
    /\ data = [k \in Keys |-> Absent]
    /\ status = "idle"
    /\ observers = [k \in Keys |-> <<>>]
    /\ lockOwner = "none"
    /\ lockCount = 0
    /\ stack = [t \in Threads |-> <<>>]
    /\ budget = MaxPrompts
    /\ nwritten = [k \in Keys |-> 0]
    /\ seen = [cb \in AllCallbacks |-> [k \in Keys |-> 0]]
    /\ regLog = [k \in Keys |-> <<>>]
    /\ escaped = FALSE
    /\ \E key \in BOOLEAN :
          driver = [pc |-> "start", run_cycles |-> 0, current_status |-> "idle",
                    api_key |-> key]
    /\ acq = AcquisitionOff

NextMara ==
    \/ MainConstruct
    \/ MainRun
    \/ MainLoopAge
    \/ MainLoopFeedback
    \/ MainLoopCheck
    \/ MainTimedOut
    \/ set_data(MainThread)
    \/ set_status(MainThread)
    \/ age_data(MainThread)
    \/ register_observer(MainThread)
    \/ notify_observers(MainThread)
    \/ CallbackCall(MainThread)
    \/ CallbackRaise(MainThread)
    \/ CallbackReturn(MainThread)
    \/ WriteReturn(MainThread)

SpecMara == InitMara /\ [][NextMara]_vars

-----------------------------------------------------------------------------
(* One call of DataAcquisitionAgent._perform_acquisition, step by step: the  *)
(* retry loop, the executor of _run_scraper_with_timeout and the thread on   *)
(* which the scraper runs.  The body of the try block (building the scraper  *)
(* and running it under the timeout) is one attempt.                         *)
(*   pc      : call, for, try, result, exit_with, except, returned           *)
(*   worker  : the thread of the executor: none, running, done, raised       *)
(*   hangs   : scraper_instance.run of this attempt never completes          *)
(*   pending : how _run_scraper_with_timeout is leaving: return, raise,      *)
(*             timeout                                                       *)
(*   error   : the exception e that the except clause caught last            *)
(*   events  : history: attempt, ok, fail, sleep, in the order they happened *)
(*   slept   : history: the seconds spent in time.sleep                      *)

MaxRetries == 3
MaxDelay == 2

AtAcq(pc) == acq.pc = pc

\* _perform_acquisition makes no call of the blackboard.
StoreIdle ==
    UNCHANGED <<data, status, observers, lockOwner, lockCount, stack, budget,
                nwritten, seen, regLog, escaped, driver>>

\* The test of the except clause: is another attempt left?
SleepsAfterEveryAttempt(attempt, max_retries) == TRUE
AttemptsLeft(attempt, max_retries) == attempt < max_retries - 1

\* "return result" of the try block.
KeepsTryingAfterSuccess == FALSE
ReturnsOnSuccess == TRUE

\* _perform_acquisition, to the for statement: None without OPENAI_API_KEY.
AcquireCall ==
    /\ AtAcq("call")
    /\ acq' = IF ~acq.api_key
              THEN [acq EXCEPT !.pc = "returned", !.result = Absent]
              ELSE [acq EXCEPT !.pc = "for"]
    /\ StoreIdle

\* for attempt in range(self.max_retries), and the return None after the loop.
AcquireFor ==
    /\ AtAcq("for")
    /\ acq' = IF acq.attempt < acq.max_retries
              THEN [acq EXCEPT !.pc = "try"]
              ELSE [acq EXCEPT !.pc = "returned", !.result = Absent]
    /\ StoreIdle

\* The try block up to executor.submit(scraper_instance.run): the scraper
\* starts on the thread of a new executor.
RunScraperSubmit ==
    /\ AtAcq("try")
    /\ \E h \in BOOLEAN :
          acq' = [acq EXCEPT !.pc = "result", !.worker = "running", !.hangs = h,
                             !.pending = "none", !.value = Absent,
                             !.events = Append(@, "attempt")]
    /\ StoreIdle

\* scraper_instance.run returns on the executor's thread.
ScraperReturns ==
    /\ acq.worker = "running"
    /\ ~acq.hangs
    /\ \E r \in ScraperResults :
          acq' = [acq EXCEPT !.worker = "done", !.value = r]
    /\ StoreIdle

\* scraper_instance.run raises on the executor's thread.
ScraperRaises ==
    /\ acq.worker = "running"
    /\ ~acq.hangs
    /\ acq' = [acq EXCEPT !.worker = "raised"]
    /\ StoreIdle

\* future.result(timeout=timeout) and the except clauses around it: the value,
\* the scraper's exception, or TimeoutError when the scraper is still running
\* after timeout seconds.  The value of a scraper that ends later is dropped.
FutureResult ==
    /\ AtAcq("result")
    /\ acq' = [acq EXCEPT !.pc = "exit_with",
                          !.pending = IF acq.worker = "done" THEN "return"
                                      ELSE IF acq.worker = "raised" THEN "raise"
                                      ELSE "timeout"]
    /\ StoreIdle

\* Leaving the with block: ThreadPoolExecutor.__exit__ is shutdown(wait=True),
\* which joins the executor's thread, so it returns when the scraper has ended.
\* Then _perform_acquisition goes on: return result, or the except clause.
ExecutorExit ==
    /\ AtAcq("exit_with")
    /\ acq.worker \in {"done", "raised"}
    /\ acq' = IF acq.pending = "return"
              THEN IF ReturnsOnSuccess
                   THEN [acq EXCEPT !.pc = "returned", !.worker = "none",
                                    !.result = acq.value,
                                    !.events = Append(@, "ok")]
                   ELSE [acq EXCEPT !.pc = "for", !.worker = "none",
                                    !.result = acq.value, !.attempt = @ + 1,
                                    !.events = Append(@, "ok")]
              ELSE [acq EXCEPT !.pc = "except", !.worker = "none",
                               !.error = IF acq.pending = "timeout"
                                         THEN "TimeoutError" ELSE "ScraperError",
                               !.events = Append(@, "fail")]
    /\ StoreIdle

\* The except clause: time.sleep(self.retry_delay) and the next attempt, or
\* return None after the last one.
AcquireExcept ==
    /\ AtAcq("except")
    /\ acq' = IF AttemptsLeft(acq.attempt, acq.max_retries)
              THEN [acq EXCEPT !.pc = "for", !.attempt = @ + 1,
                               !.slept = @ + acq.retry_delay,
                               !.events = Append(@, "sleep")]
              ELSE [acq EXCEPT !.pc = "returned", !.result = Absent]
    /\ StoreIdle

\* execute_task goes on with what _perform_acquisition returned: it posts the
\* data, or its failure.
ExecuteTaskResult ==
    /\ AtAcq("returned")
    /\ Depth(MainThread) = 0
    /\ nwritten["status"] = 0
    /\ stack' = [stack EXCEPT ![MainThread] =
           <<MethodFrame("execute_task", execute_task_result(acq.result))>>]
    /\ UNCHANGED <<data, status, observers, lockOwner, lockCount, budget, nwritten,
                   seen, regLog, escaped, driver, acq>>

InitAcquire ==
    /\ data = [k \in Keys |-> Absent]
    /\ status = "idle"
    /\ observers = [k \in Keys |-> <<>>]
    /\ lockOwner = "none"
    /\ lockCount = 0
    /\ stack = [t \in Threads |-> <<>>]
    /\ budget = 0
    /\ nwritten = [k \in Keys |-> 0]
    /\ seen = [cb \in AllCallbacks |-> [k \in Keys |-> 0]]
    /\ regLog = [k \in Keys |-> <<>>]
    /\ escaped = FALSE
    /\ driver = DriverOff
    /\ \E key \in BOOLEAN : \E n \in 1..MaxRetries : \E d \in 1..MaxDelay :
          acq = [AcquisitionOff EXCEPT !.pc = "call", !.api_key = key,
                                       !.max_retries = n, !.retry_delay = d]

NextAcquire ==
    \/ AcquireCall
    \/ AcquireFor
    \/ RunScraperSubmit
    \/ ScraperReturns
    \/ ScraperRaises
    \/ FutureResult
    \/ ExecutorExit
    \/ AcquireExcept
    \/ ExecuteTaskResult
    \/ set_data(MainThread)
    \/ set_status(MainThread)
    \/ CallbackCall(MainThread)
    \/ CallbackReturn(MainThread)
    \/ WriteReturn(MainThread)

SpecAcquire == InitAcquire /\ [][NextAcquire]_vars

-----------------------------------------------------------------------------
(* The store with the staleness monitor as its only observer, as             *)
(* DataRefreshAgent.__init__ leaves it, under a client that writes the       *)
(* graph slot, ages it and writes the status complete.                       *)

MaxMonitorCalls == 3

\* The values the client stores in the graph slot.
StoredShapes ==
    {Graph(stale_threshold - 1), Graph(stale_threshold), GraphNoAge(TRUE, 1),
     PlainDict, NoneEntities, Text("a string")}

MonitorCalls ==
    {Frame("set_status", "status", Text("complete"))}
    \cup {Frame("set_data", "synthesized_knowledge", v) : v \in StoredShapes}
    \cup {Frame("age_data", k, Absent) : k \in {"synthesized_knowledge", "raw_scraped_data"}}

MonitorClient ==
    /\ Depth(MainThread) = 0
    /\ budget > 0
    /\ budget' = budget - 1
    /\ \E f \in MonitorCalls : stack' = [stack EXCEPT ![MainThread] = <<f>>]
    /\ UNCHANGED <<data, status, observers, lockOwner, lockCount, nwritten,
                   seen, regLog, escaped, driver, acq>>

MonitorObservers ==
    [k \in Keys |-> IF k \in {"status", "synthesized_knowledge"}
                    THEN <<"DataRefreshAgent">> ELSE <<>>]

InitMonitor ==
    /\ data = [k \in Keys |-> Absent]
    /\ status = "idle"
    /\ observers = MonitorObservers
    /\ lockOwner = "none"
    /\ lockCount = 0
    /\ stack = [t \in Threads |-> <<>>]
    /\ budget = MaxMonitorCalls
    /\ nwritten = [k \in Keys |-> 0]
    /\ seen = [cb \in AllCallbacks |-> [k \in Keys |-> 0]]
    /\ regLog = MonitorObservers
    /\ escaped = FALSE
    /\ driver = DriverOff
    /\ acq = AcquisitionOff

NextMonitor ==
    \/ MonitorClient
    \/ set_data(MainThread)
    \/ set_status(MainThread)
    \/ age_data(MainThread)
    \/ notify_observers(MainThread)
    \/ CallbackCall(MainThread)
    \/ CallbackRaise(MainThread)
    \/ CallbackReturn(MainThread)
    \/ WriteReturn(MainThread)

SpecMonitor == InitMonitor /\ [][NextMonitor]_vars

-----------------------------------------------------------------------------
(* Properties of the store *)

Live == UNION {{<<t, i>> : i \in 1..Len(stack[t])} : t \in Threads}
At(p) == stack[p[1]][p[2]]
Below(p) == stack[p[1]][p[2] - 1]

IsWrite(f) == f.op \in WriteOps
InLoop(f) == IsWrite(f) /\ f.pc = "notify"
InCallback(t) == \E i \in 1..Len(stack[t]) : stack[t][i].op = "callback"

\* C1: every subscriber of a key is handed the writes to that key one after the
\* other in write order: the write a callback is invoked for is the one that
\* follows the write it was last invoked for (the status being written with
\* set_status only).
C1_DeliveryInWriteOrder ==
    \A p \in Live :
        (At(p).op = "callback" /\ data["status"] = Absent)
        => At(p).seq = At(p).prev + 1

\* C2: a callback invoked by the notification of set_data(k, v) or set_status(v)
\* receives v, the value that write stored.
C2_CallbackGetsWrittenValue ==
    \A p \in Live :
        (/\ At(p).op = "callback"
         /\ ~(Below(p).op = "set_data" /\ Below(p).key = "status"))
        => At(p).val = Below(p).val

\* C3: no callback runs while the thread that made the triggering write holds
\* the store lock.
C3_CallbacksRunUnlocked ==
    \A t \in Threads : InCallback(t) => lockOwner # t

\* C4: a get_data or get_status call of one thread can complete while the
\* callbacks of another thread's write are running.
C4_ReadsDoNotWaitForCallbacks ==
    \A t \in Threads, u \in Threads :
        (/\ t # u
         /\ InCallback(t)
         /\ Depth(u) > 0
         /\ Top(u).op \in {"get_data", "get_status"})
        => CanAcquire(u)

C6_RaiseStep(t) ==
    /\ Depth(t) > 0
    /\ Top(t).op = "callback"
    /\ Top(t).script # <<>>
    /\ Head(Top(t).script).c = "raise"
    /\ stack'[t] # stack[t]

C6_CallbackErrorIsContained ==
    /\ [](/\ ~escaped
          /\ \A p \in Live :
                (InLoop(At(p)) /\ Len(At(p).inv) = Len(At(p).cbs)) => At(p).inv = At(p).cbs)
    /\ [][\A t \in Threads :
            C6_RaiseStep(t) =>
               /\ stack'[t] = [Popped(t) EXCEPT ![Len(stack[t]) - 1].raised = @ + 1]
               /\ InLoop(stack'[t][Len(stack'[t])])
               /\ data' = data
               /\ status' = status
               /\ lockOwner' = lockOwner]_vars

C6_Witness ==
    \E p \in Live :
        /\ At(p).op = "callback"
        /\ Below(p).raised = 1
        /\ Len(Below(p).inv) = 2
        /\ Below(p).cbs[1] # Below(p).cbs[2]
        /\ data[Below(p).key] = Below(p).val

\* C7: register_observer only appends, so the observer list of a key is the
\* sequence of its registrations, and every notification of the key invokes the
\* callbacks in that order.
C7_CallbacksInRegistrationOrder ==
    /\ \A k \in Keys : observers[k] = regLog[k]
    /\ \A p \in Live :
          InLoop(At(p)) =>
              At(p).inv = SubSeq(regLog[At(p).key], 1, Len(At(p).inv))

C7_Witness ==
    \E p \in Live :
        /\ InLoop(At(p))
        /\ Len(At(p).inv) = 2
        /\ At(p).inv[1] # At(p).inv[2]

\* C8: set_data("status", v) behaves as set_status(v): once either has stored
\* its value get_status() returns v, and the first status subscriber is
\* notified with v.
C8_SetDataStatusIsSetStatus ==
    \A p \in Live :
        /\ (/\ InLoop(At(p))
            /\ At(p).op \in {"set_data", "set_status"}
            /\ At(p).key = "status"
            /\ At(p).inv = <<>>)
           => Text(status) = At(p).val
        /\ (/\ At(p).op = "callback"
            /\ At(p).key = "status"
            /\ Len(Below(p).inv) = 1)
           => At(p).val = Below(p).val

-----------------------------------------------------------------------------
(* Properties of the pipeline *)

\* A callback frame of an agent that was handed a status of its filter.
Acting(f) == f.op = "callback" /\ f.cb \in Agents /\ Triggered(f.cb, f.key, f.val)
\* Its body has run to the end.
Finished(f) == f.script = <<>>
\* Its body is about to raise.
Raising(f) == f.script # <<>> /\ Head(f.script).c = "raise"

\* C9: whenever the reporting worker is notified of a stage failure status
\* (data_acquisition_failed, knowledge_synthesis_failed, data_validation_failed),
\* its failure path has written status failed by the time it returns.
C9_FailurePathWritesFailed ==
    \A p \in Live :
        (/\ Acting(At(p))
         /\ At(p).cb = "AnalysisAndReportingAgent"
         /\ At(p).val.s \in StageFailures
         /\ Finished(At(p)))
        => \E i \in 1..Len(At(p).wrote) : At(p).wrote[i] = "failed"

\* The agents that turn a request status into a result status.
Workers ==
    {"DataAcquisitionAgent", "KnowledgeSynthesisAgent", "DataValidationAgent",
     "AnalysisAndReportingAgent", "KnowledgeQueryAgent", "ChangeDetectionAgent"}

\* C10: no agent that acts on a status of its filter raises, whatever the store
\* holds, and a worker acting on a request status has written a status when its
\* body ends (the failure path of the reporting worker is the matter of C9).
C10_WorkersHandleTheirFailures ==
    \A p \in Live :
        Acting(At(p)) =>
            /\ ~Raising(At(p))
            /\ (/\ Finished(At(p))
                /\ At(p).cb \in Workers
                /\ At(p).val.s \notin StageFailures \cup {"unsupported_query", "failed"})
               => At(p).wrote # <<>>

\* The statuses at which the exit of the user is meant to end the loop.
ExitStatuses ==
    {"complete", "failed", "unsupported_query", "complete_with_feedback",
     "changes_detected", "no_changes_detected"}

\* The last answer to the prompt was exit, and the status is one that ends the run.
UserExited == data["human_feedback"] = ExitFeedback /\ status \in ExitStatuses

Aging(f) == f.op = "age_data" /\ f.pc = "notify" /\ f.seq > 0

\* C11: once the user has answered the prompt with exit at one of the exit
\* statuses, the graph is not aged, and the driver loop does not pass its check
\* into another cycle.
C11_ExitEndsTheLoop ==
    UserExited =>
        /\ \A p \in Live : ~Aging(At(p))
        /\ ~(/\ AtMain("loop")
             /\ driver.run_cycles > 0
             /\ driver.current_status \in ExitStatuses)

\* C12: complete_with_feedback is terminal: no agent acts on it.
C12_CompleteWithFeedbackIsTerminal ==
    \A p \in Live :
        Acting(At(p)) => At(p).val.s # "complete_with_feedback"

\* C13: one status write does not make two different agents act on the same
\* status: the agents that a notification loop has handed a status of their
\* filter were each handed a different status.
C13_OneWorkerPerStatus ==
    \A p \in Live :
        \A i, j \in 1..Len(At(p).acted) :
            At(p).acted[i][2] = At(p).acted[j][2] => At(p).acted[i][1] = At(p).acted[j][1]

\* The next statuses the transition table lists for a pipeline worker acting on
\* its entry status.
Listed(cb, s) ==
    IF cb = "DataAcquisitionAgent" /\ s = "task_delegated_to_data_acquisition"
    THEN {"raw_data_acquired", "data_acquisition_failed"}
    ELSE IF cb = "KnowledgeSynthesisAgent" /\ s = "raw_data_acquired"
    THEN {"knowledge_synthesized", "knowledge_synthesis_failed"}
    ELSE IF cb = "DataValidationAgent" /\ s = "knowledge_synthesized"
    THEN {"data_validated", "data_validation_failed"}
    ELSE IF cb = "AnalysisAndReportingAgent" /\ s = "data_validated"
    THEN {"complete"}
    ELSE IF cb = "ChangeDetectionAgent" /\ s = "check_for_changes_requested"
    THEN {"changes_detected", "no_changes_detected"}
    ELSE {}

\* C14: a pipeline worker acting on its entry status writes one status, and it
\* is one the transition table lists for it.
C14_WorkersFollowTheTable ==
    \A p \in Live :
        (Acting(At(p)) /\ Listed(At(p).cb, At(p).val.s) # {})
        => /\ Len(At(p).wrote) <= 1
           /\ \A i \in 1..Len(At(p).wrote) : At(p).wrote[i] \in Listed(At(p).cb, At(p).val.s)
           /\ Finished(At(p)) => Len(At(p).wrote) = 1

C14_Witness ==
    \E p \in Live :
        /\ Acting(At(p))
        /\ At(p).cb = "ChangeDetectionAgent"
        /\ Finished(At(p))
        /\ At(p).wrote = <<"changes_detected">>

RequestStatuses ==
    {"query_requested", "summarize_requested", "filter_by_author_requested",
     "visualize_requested", "prolific_author_requested"}

\* C15: the reporting or query worker acting on a request status does not
\* raise, and the status it writes is complete.
C15_RequestsEndInComplete ==
    \A p \in Live :
        (Acting(At(p)) /\ At(p).val.s \in RequestStatuses)
        => /\ ~Raising(At(p))
           /\ At(p).wrote # <<>> => At(p).wrote[1] = "complete"
           /\ Finished(At(p)) => At(p).wrote # <<>>

\* C16: OrchestratorAgent.run writes exactly one status, and it is
\* task_delegated_to_data_acquisition or unsupported_query.
C16_RunDelegatesOrRejects ==
    \A p \in Live :
        (At(p).op = "method" /\ At(p).cb = "run")
        => /\ Len(At(p).wrote) <= 1
           /\ \A i \in 1..Len(At(p).wrote) :
                 At(p).wrote[i] \in {"task_delegated_to_data_acquisition", "unsupported_query"}
           /\ Finished(At(p)) => Len(At(p).wrote) = 1

\* C17: an agent that is handed a status outside its filter runs no task
\* method: its callback has nothing to do and writes nothing.
C17_NoActionOutsideTheFilter ==
    \A p \in Live :
        (/\ At(p).op = "callback"
         /\ At(p).cb \in Agents
         /\ At(p).key = "status"
         /\ ~Triggered(At(p).cb, At(p).key, At(p).val))
        => At(p).script = <<>> /\ At(p).wrote = <<>>

C17_Witness ==
    \E p \in Live :
        /\ At(p).op = "callback"
        /\ At(p).cb = "KnowledgeSynthesisAgent"
        /\ Below(p).val = Text("task_delegated_to_data_acquisition")
        /\ At(p).val = Text("complete")
        /\ Finished(At(p))

-----------------------------------------------------------------------------
(* Properties of _perform_acquisition *)

Count(e) == Cardinality({i \in 1..Len(acq.events) : acq.events[i] = e})

\* The call has returned None after entering the loop and with no attempt
\* that succeeded.
Exhausted == AtAcq("returned") /\ acq.api_key /\ Count("ok") = 0

\* C18: when every attempt fails, exhaustion is reported after exactly
\* max_retries attempts and max_retries - 1 pauses of retry_delay, each pause
\* between a failed attempt and the next one, none after the last attempt.
C18_ExhaustionAfterMaxRetries ==
    /\ Count("attempt") <= acq.max_retries
    /\ Exhausted =>
          /\ acq.result = Absent
          /\ Count("attempt") = acq.max_retries
          /\ Count("sleep") = acq.max_retries - 1
          /\ acq.slept = acq.retry_delay * (acq.max_retries - 1)
          /\ acq.events[Len(acq.events)] = "fail"
          /\ \A i \in 1..Len(acq.events) :
                acq.events[i] = "sleep" =>
                    acq.events[i - 1] = "fail" /\ acq.events[i + 1] = "attempt"

C18_Witness ==
    /\ Exhausted
    /\ acq.max_retries = 3
    /\ acq.events = <<"attempt", "fail", "sleep", "attempt", "fail", "sleep", "attempt", "fail">>

\* C19: the first attempt that succeeds ends the call: its value is the
\* result, and no attempt and no pause follows it.
C19_FirstSuccessIsReturned ==
    \A i \in 1..Len(acq.events) :
        acq.events[i] = "ok" =>
            /\ i = Len(acq.events)
            /\ AtAcq("returned")
            /\ acq.result = acq.value
            /\ acq.value \in ScraperResults

C19_Witness ==
    /\ AtAcq("returned")
    /\ acq.events = <<"attempt", "fail", "sleep", "attempt", "ok">>
    /\ acq.result = Raw(TRUE, 1)

\* C20: a call that has not returned can always go on, whether or not the
\* scraper of the current attempt ever completes.
C20_AcquisitionNeverBlocks ==
    AtAcq("returned") \/ ENABLED NextAcquire

\* C21: the outcome returned on exhaustion carries the error of the last
\* failed attempt.
C21_ExhaustionCarriesLastError ==
    Exhausted => acq.result.kind = "error" /\ acq.result.err = acq.error

-----------------------------------------------------------------------------
(* Properties of the staleness monitor *)

\* A call of DataRefreshAgent.on_blackboard_change that runs the check.
Checking(f) ==
    /\ f.op = "callback"
    /\ f.cb = "DataRefreshAgent"
    /\ \/ f.key = "status" /\ f.val = Text("complete")
       \/ f.key = "synthesized_knowledge" /\ f.val # Absent

RefreshSignal ==
    <<DoSetData("human_feedback", RefreshFeedback), DoSetStatus("awaiting_re_orchestration")>>

\* C22: a staleness check writes the refresh signal exactly when the graph
\* carries a data_age that is at least stale_threshold, and writes nothing
\* when the age is below it or the graph or its age is missing.
C22_SignalIffStale ==
    \A p \in Live :
        Checking(At(p)) =>
            IF /\ data["synthesized_knowledge"].kind = "graph"
               /\ data["synthesized_knowledge"].age >= stale_threshold
            THEN /\ \E k \in 0..2 : At(p).script = SubSeq(RefreshSignal, k + 1, 2)
                 /\ Finished(At(p)) => At(p).wrote = <<"awaiting_re_orchestration">>
            ELSE At(p).script = <<>> /\ At(p).wrote = <<>>

C22_Witness ==
    \E p \in Live :
        /\ Checking(At(p))
        /\ Finished(At(p))
        /\ HasAge(data["synthesized_knowledge"])
        /\ data["synthesized_knowledge"].age = stale_threshold
        /\ At(p).wrote = <<"awaiting_re_orchestration">>

\* Where a statement writes: the slot of a set_data, the value of a set_status.
Slot(op) == IF op.c = "set_status" THEN <<"status", op.val>> ELSE <<op.key, Absent>>

\* The slots and status values the feedback worker writes after a prompt.
FeedbackWorkerSlots ==
    UNION {{Slot(b.script[j]) : j \in 1..Len(b.script)} : b \in execute_feedback_prompt}

\* C24: the staleness monitor rewrites neither the raw data nor the graph, and
\* what it writes is a slot and a status value of its own, which the feedback
\* worker does not write.
C24_MonitorWritesItsOwnSignal ==
    \A p \in Live :
        Checking(At(p)) =>
            \A i \in 1..Len(At(p).script) :
                /\ At(p).script[i].c \in {"set_data", "set_status"}
                /\ At(p).script[i].key \notin {"raw_scraped_data", "synthesized_knowledge"}
                /\ Slot(At(p).script[i]) \notin FeedbackWorkerSlots

\* The frame at the bottom of the stack that p is on.
Root(p) == stack[p[1]][1]

\* C25: a decomposition step that finds the refresh signal writes a web_scrape
\* current_task and then the status task_delegated_to_data_acquisition, and the
\* graph that the resulting synthesis writes has data_age 0.
C25_RefreshIsDelegated ==
    \A p \in Live :
        /\ (/\ At(p).op = "method"
            /\ At(p).cb = "process_feedback"
            /\ At(p).wrote = <<>>
            /\ p[2] = Len(stack[p[1]])
            /\ data["human_feedback"] = RefreshFeedback)
           => /\ At(p).script # <<>>
              /\ At(p).script[Len(At(p).script)] = DoSetStatus("task_delegated_to_data_acquisition")
              /\ IF Len(At(p).script) = 1
                 THEN data["current_task"] = WebScrapeTask
                 ELSE At(p).script[1] = DoSetData("current_task", WebScrapeTask)
        /\ (/\ Acting(At(p))
            /\ At(p).cb = "KnowledgeSynthesisAgent"
            /\ Root(p).cb = "process_feedback"
            /\ At(p).wrote = <<"knowledge_synthesized">>)
           => /\ HasAge(data["synthesized_knowledge"])
              /\ data["synthesized_knowledge"].age = 0

\* The graph was written, aged to the threshold, and written again by the
\* synthesis that the refresh started.
C25_Witness ==
    \E p \in Live :
        /\ Acting(At(p))
        /\ At(p).cb = "KnowledgeSynthesisAgent"
        /\ Root(p).cb = "process_feedback"
        /\ At(p).wrote = <<"knowledge_synthesized">>
        /\ nwritten["synthesized_knowledge"] >= stale_threshold + 2
        /\ data["synthesized_knowledge"].age = 0

\* C26: the aging call that raises data_age to stale_threshold has the refresh
\* request written by the time it has notified the monitor, and no query-type
\* status is written while the graph is at or past the threshold: the request
\* comes before any further query-type status.
C26_RefreshBeforeFurtherQueries ==
    \A p \in Live :
        /\ (/\ Aging(At(p))
            /\ p[2] = Len(stack[p[1]])
            /\ At(p).inv = <<"DataRefreshAgent">>
            /\ data["synthesized_knowledge"].age >= stale_threshold)
           => /\ status = "awaiting_re_orchestration"
              /\ data["human_feedback"] = RefreshFeedback
        /\ (/\ At(p).op = "set_status"
            /\ At(p).val.s \in RequestStatuses)
           => ~(/\ HasAge(data["synthesized_knowledge"])
                /\ data["synthesized_knowledge"].age >= stale_threshold)

C26_Witness ==
    \E p \in Live :
        /\ Aging(At(p))
        /\ p[2] = Len(stack[p[1]])
        /\ At(p).inv = <<"DataRefreshAgent">>
        /\ data["synthesized_knowledge"].age = 2
        /\ driver.run_cycles = 2
        /\ status = "awaiting_re_orchestration"

-----------------------------------------------------------------------------
(* Properties of the age of the graph *)

\* The thread of the driver is in set_data, called by the synthesis worker.
SynthesisWrites ==
    /\ Depth(MainThread) >= 2
    /\ Top(MainThread).op = "set_data"
    /\ Top(MainThread).key = "synthesized_knowledge"
    /\ stack[MainThread][Depth(MainThread) - 1].cb = "KnowledgeSynthesisAgent"

\* C28: every step that changes the graph either is age_data adding exactly 1
\* to its data_age, or is the synthesis worker writing a graph of data_age 0;
\* and an age_data call on a graph with an age does add 1.
C28_AgeCountsAgingCalls ==
    [][LET g == data["synthesized_knowledge"]
           h == data'["synthesized_knowledge"]
       IN /\ h # g =>
                \/ /\ Depth(MainThread) >= 1
                   /\ Top(MainThread).op = "age_data"
                   /\ HasAge(g)
                   /\ h = [g EXCEPT !.age = g.age + 1]
                \/ /\ SynthesisWrites
                   /\ HasAge(h)
                   /\ h.age = 0
          /\ (/\ Depth(MainThread) >= 1
              /\ Top(MainThread).op = "age_data"
              /\ Top(MainThread).pc = "lock"
              /\ Depth(MainThread)' = Depth(MainThread)
              /\ Top(MainThread)'.pc # "lock"
              /\ HasAge(g))
             => h.age = g.age + 1]_vars

\* The graph was synthesized, aged, and synthesized again.
C28_Witness ==
    /\ SynthesisWrites
    /\ Top(MainThread).pc # "lock"
    /\ data["synthesized_knowledge"].age = 0
    /\ nwritten["synthesized_knowledge"] > stale_threshold

-----------------------------------------------------------------------------
(* Properties of the end-to-end scenarios *)

ScenarioA ==
    <<"task_delegated_to_data_acquisition", "raw_data_acquired", "knowledge_synthesized",
      "data_validated", "complete">>

\* orchestrator.run has delegated an acquire task.
RunDelegated(t) ==
    /\ Depth(t) >= 1
    /\ stack[t][1].op = "method"
    /\ stack[t][1].cb = "run"
    /\ stack[t][1].wrote = <<"task_delegated_to_data_acquisition">>

\* C29: when run delegates an acquire task and the acquisition returns data,
\* the first five statuses written are task_delegated_to_data_acquisition,
\* raw_data_acquired, knowledge_synthesized, data_validated, complete, in this
\* order, all before run returns, and the report is in final_report when
\* complete is written.
C29_ScenarioA ==
    /\ \A p \in Live :
          (/\ RunDelegated(p[1])
           /\ At(p).op = "set_status"
           /\ At(p).seq \in 1..5
           /\ At(p).seq >= 2 => Truthy(data["raw_scraped_data"]))
          => /\ At(p).val = Text(ScenarioA[At(p).seq])
             /\ At(p).seq = 5 => data["final_report"] = Text("### MARA Research Report")
    /\ (/\ RunDelegated(MainThread)
        /\ Depth(MainThread) = 1
        /\ Finished(Top(MainThread))
        /\ Truthy(data["raw_scraped_data"]))
       => nwritten["status"] >= 5

C29_Witness ==
    \E p \in Live :
        /\ RunDelegated(p[1])
        /\ At(p).op = "set_status"
        /\ At(p).seq = 5
        /\ At(p).val = Text("complete")
        /\ Below(p).cb = "AnalysisAndReportingAgent"

\* The acquisition worker, acting on a web_scrape task, got nothing from
\* _perform_acquisition and has written data_acquisition_failed.
AcquisitionFailed(p) ==
    /\ Acting(At(p))
    /\ At(p).cb = "DataAcquisitionAgent"
    /\ data["current_task"] = WebScrapeTask
    /\ At(p).wrote = <<"data_acquisition_failed">>

\* C30: when the acquisition gets no data, the worker writes
\* data_acquisition_failed, nothing in that run writes synthesized_knowledge,
\* the reporting worker writes its failure report to final_report while it is
\* notified, and the worker leaves its own failure message there.
C30_ScenarioB ==
    \A p \in Live :
        /\ (/\ Acting(At(p))
            /\ At(p).cb = "DataAcquisitionAgent"
            /\ data["current_task"] = WebScrapeTask
            /\ ~Truthy(data["raw_scraped_data"])
            /\ Finished(At(p)))
           => AcquisitionFailed(p)
        /\ AcquisitionFailed(p) =>
              /\ \A q \in Live :
                    (q[1] = p[1] /\ q[2] > p[2]) =>
                        /\ At(q).key # "synthesized_knowledge"
                        /\ ~(Acting(At(q)) /\ At(q).cb = "KnowledgeSynthesisAgent")
              /\ (p[2] = Len(stack[p[1]]) /\ Len(At(p).script) = 1) =>
                    data["final_report"] = Text("### MARA Research Report - Process Failed")
              /\ (p[2] = Len(stack[p[1]]) /\ Finished(At(p))) =>
                    /\ status = "data_acquisition_failed"
                    /\ data["final_report"] =
                          Text("Data Acquisition Agent failed to acquire raw data")

C30_Witness ==
    \E p \in Live :
        /\ AcquisitionFailed(p)
        /\ driver.api_key
        /\ data["synthesized_knowledge"] = Absent
        /\ p[2] = Len(stack[p[1]])
        /\ Finished(At(p))

-----------------------------------------------------------------------------
(* Properties of aging and of the monitor under the client *)

\* C23: the monitor writes its signal at most once for each value of the
\* graph: the signals written never outnumber the writes of the graph slot,
\* whatever number of checks is made at one age.
C23_OneSignalPerAge ==
    nwritten["human_feedback"] <= nwritten["synthesized_knowledge"]

\* C27: an age_data call on a key that is absent or whose value has no age
\* changes neither the slots nor the status, snapshots no callback, and
\* returns without an exception.
C27_AgingWithoutAgeIsNoOp ==
    [][(/\ Depth(MainThread) >= 1
        /\ Top(MainThread).op = "age_data"
        /\ Top(MainThread).pc = "lock"
        /\ ~HasAge(data[Top(MainThread).key])
        /\ stack' # stack)
       => /\ data' = data
          /\ status' = status
          /\ escaped' = escaped
          /\ Depth(MainThread)' = Depth(MainThread)
          /\ Top(MainThread)'.cbs = <<>>]_vars

-----------------------------------------------------------------------------
(* Properties of the decomposition *)

FeedbackStatuses ==
    RequestStatuses \cup {"check_for_changes_requested",
                          "task_delegated_to_data_acquisition", "complete_with_feedback"}

IsMethod(f, name) == f.op = "method" /\ f.cb = name

\* The statuses a body has still to write.
ToWrite(f) == {f.script[i].val.s : i \in {j \in 1..Len(f.script) : f.script[j].c = "set_status"}}

\* C31: process_feedback, whatever text or JSON human_feedback holds, does not
\* raise and writes exactly one status, one of the request statuses,
\* task_delegated_to_data_acquisition or complete_with_feedback; until it is
\* written that status is the one the feedback in the store decides.  Without
\* a decomposer run writes exactly one status, task_delegated_to_data_acquisition
\* or unsupported_query, decided by the query.
C31_FallbackIsTotal ==
    \A p \in Live :
        /\ IsMethod(At(p), "process_feedback") =>
              /\ ~Raising(At(p))
              /\ Len(At(p).wrote) + Cardinality(ToWrite(At(p))) = 1
              /\ \A i \in 1..Len(At(p).wrote) : At(p).wrote[i] \in FeedbackStatuses
              /\ At(p).wrote = <<>> => ToWrite(At(p)) = ToWrite([script |-> process_feedback])
        /\ (IsMethod(At(p), "run") /\ ~driver.api_key) =>
              /\ Len(At(p).wrote) + Cardinality(ToWrite(At(p))) = 1
              /\ \A i \in 1..Len(At(p).wrote) :
                    At(p).wrote[i] = IF FallbackMatches(data["user_query"])
                                     THEN "task_delegated_to_data_acquisition"
                                     ELSE "unsupported_query"

\* process_feedback has returned complete_with_feedback for a text it does not
\* recognize, and run has rejected a query by the keyword fallback.
C31_Witness ==
    /\ ~driver.api_key
    /\ data["user_query"] = OtherQuery
    /\ Depth(MainThread) = 1
    /\ IsMethod(Top(MainThread), "process_feedback")
    /\ Finished(Top(MainThread))
    /\ Top(MainThread).wrote = <<"complete_with_feedback">>

\* The run frame was handed the error of a failed or invalid decomposition.
DecompositionFailed(f) ==
    \E i \in 1..Len(f.script) :
        /\ f.script[i].key = "final_report"
        /\ f.script[i].val \in {Text(e) : e \in DecomposeErrors}

\* C32: whenever the decomposer is unavailable (no client, a failed call, an
\* invalid answer) or answers with no recognized action, the status run writes
\* is the one the keyword fallback gives for the query.
C32_FallbackWhenUnavailable ==
    \A p \in Live :
        (/\ IsMethod(At(p), "run")
         /\ Truthy(data["user_query"])
         /\ ~driver.api_key \/ DecompositionFailed(At(p)))
        => \A s \in ToWrite(At(p)) \cup {At(p).wrote[i] : i \in 1..Len(At(p).wrote)} :
              s = IF FallbackMatches(data["user_query"])
                  THEN "task_delegated_to_data_acquisition"
                  ELSE "unsupported_query"

-----------------------------------------------------------------------------
(* Properties of the workers' inputs *)

\* The task or the slot the worker of frame f needs is missing or invalid.
MalformedInput(f) ==
    LET task == data["current_task"]
        graph == data["synthesized_knowledge"]
    IN IF f.cb = "DataAcquisitionAgent"
       THEN task.kind # "task" \/ task.type # "web_scrape"
       ELSE IF f.cb = "KnowledgeSynthesisAgent" THEN ~Truthy(data["raw_scraped_data"])
       ELSE IF f.cb = "DataValidationAgent" THEN ~HasEntities(graph)
       ELSE IF f.cb = "KnowledgeQueryAgent" THEN ~Truthy(task) \/ ~HasEntities(graph)
       ELSE IF f.cb = "ChangeDetectionAgent" THEN ~Truthy(task) \/ ~HasEntities(graph)
       ELSE IF f.val.s \in RequestStatuses THEN ~Truthy(task) \/ ~HasEntities(graph)
       ELSE FALSE

\* C33: a worker that is triggered while its task or a slot it needs is
\* missing or invalid does not raise, and the one status it writes is failed.
C33_MalformedInputFails ==
    \A p \in Live :
        (/\ Acting(At(p))
         /\ At(p).cb \in Workers
         /\ p[2] = Len(stack[p[1]])
         /\ At(p).wrote = <<>>
         /\ MalformedInput(At(p)))
        => /\ ~Raising(At(p))
           /\ ToWrite(At(p)) = {"failed"}

-----------------------------------------------------------------------------
(* Properties of the cascades *)

\* C34: in the notification loop of a set_status(s) call the agents that act
\* are handed s, and when the loop is over every subscribed agent whose filter
\* has s has acted in it, so that each write of complete makes the feedback
\* worker prompt once, nested in another loop or not.
C34_OneRunPerStatusWrite ==
    \A p \in Live :
        (At(p).op = "set_status" /\ InLoop(At(p))) =>
            /\ \A i \in 1..Len(At(p).acted) : At(p).acted[i][2] = At(p).val.s
            /\ Len(At(p).inv) = Len(At(p).cbs) =>
                  \A j \in 1..Len(At(p).cbs) :
                      At(p).val.s \in Filter(At(p).cbs[j]) =>
                          \E i \in 1..Len(At(p).acted) :
                              At(p).acted[i] = <<At(p).cbs[j], At(p).val.s>>

-----------------------------------------------------------------------------
(* Properties of the lock *)

\* C35: every call of a store method returns, the calls a callback makes from
\* inside a notification as well as the calls of two threads that write at the
\* same time: a thread that is inside a call gets out of it.
C35_NestedCallsReturn ==
    \A t \in Threads : (Depth(t) > 0) ~> (Depth(t) = 0)

\* A callback of the first thread is about to enter a nested call of the store,
\* its thread holding the lock, while the second thread waits for the lock
\* with a call of its own.
C35_Witness ==
    /\ Depth("t1") >= 3
    /\ Below(<<"t1", Depth("t1")>>).op = "callback"
    /\ Top("t1").op \in {"set_data", "set_status", "get_data", "get_status"}
    /\ Top("t1").pc = "lock"
    /\ lockOwner = "t1"
    /\ Depth("t2") = 1
    /\ Top("t2").pc = "lock"

-----------------------------------------------------------------------------
(* Properties of the failure report *)

\* C36: when the entry point of a worker that wrote a stage failure status is
\* at its end, final_report holds the report of the reporting worker's failure
\* path.
C36_FailureReportStays ==
    \A p \in Live :
        (/\ Acting(At(p))
         /\ p[2] = Len(stack[p[1]])
         /\ Finished(At(p))
         /\ \E i \in 1..Len(At(p).wrote) : At(p).wrote[i] \in StageFailures)
        => data["final_report"] = Text("### MARA Research Report - Process Failed")

-----------------------------------------------------------------------------
(* Properties of the acquisition worker *)

\* execute_task has posted what it does with the outcome of the acquisition.
Posted == AtAcq("returned") /\ nwritten["status"] = 1 /\ Depth(MainThread) = 0

\* C37: the worker writes data_acquisition_failed only after max_retries
\* attempts that all failed, and when an attempt returned a result it writes
\* that result to raw_scraped_data and the status raw_data_acquired.
C37_FailedOnlyAfterAllAttempts ==
    /\ status = "data_acquisition_failed" =>
          /\ Count("attempt") = acq.max_retries
          /\ Count("fail") = acq.max_retries
    /\ (Posted /\ Count("ok") > 0) =>
          /\ status = "raw_data_acquired"
          /\ data["raw_scraped_data"] = acq.value

-----------------------------------------------------------------------------
(* Properties of the order of data and status *)

\* The types of task the worker acting on status s handles.
TaskTypes(s) ==
    IF s = "task_delegated_to_data_acquisition" THEN {"web_scrape"}
    ELSE IF s = "summarize_requested" THEN {"summarize_findings"}
    ELSE IF s = "filter_by_author_requested" THEN {"filter_by_author"}
    ELSE IF s = "visualize_requested" THEN {"visualize_author_distribution"}
    ELSE IF s = "prolific_author_requested" THEN {"identify_prolific_author"}
    ELSE IF s = "check_for_changes_requested" THEN {"check_for_changes"}
    ELSE IF s = "query_requested" THEN {"count_articles_by_author", "find_articles_by_keyword"}
    ELSE {}

\* The slots that are written before status s.
SlotsBefore(s) ==
    IF s = "raw_data_acquired" THEN {"raw_scraped_data"}
    ELSE IF s = "knowledge_synthesized" THEN {"synthesized_knowledge"}
    ELSE IF s = "data_validated" THEN {"synthesized_knowledge", "validation_result"}
    ELSE IF TaskTypes(s) # {} THEN {"current_task"}
    ELSE {}

\* C38: whenever a worker acts on a status, the slots written before that
\* status are present, and for a delegation or a request current_task is a
\* task of the type that worker handles.
C38_DataPrecedesStatus ==
    \A p \in Live :
        Acting(At(p)) =>
            /\ \A k \in SlotsBefore(At(p).val.s) : Truthy(data[k])
            /\ TaskTypes(At(p).val.s) # {} =>
                  /\ data["current_task"].kind = "task"
                  /\ data["current_task"].type \in TaskTypes(At(p).val.s)

\* The reporting worker acts on data_validated, and the query worker on a
\* request made after it.
C38_Witness ==
    \E p \in Live :
        /\ Acting(At(p))
        /\ At(p).cb = "KnowledgeQueryAgent"
        /\ At(p).val.s = "query_requested"
        /\ Truthy(data["validation_result"])
        /\ data["current_task"].type = "find_articles_by_keyword"

-----------------------------------------------------------------------------
(* Properties of the feedback handed to process_feedback *)

\* C39: while the status stays awaiting_re_orchestration neither
\* human_feedback nor the graph is written, and the loop calls
\* process_feedback only while that status still stands, so that
\* process_feedback reads the feedback that was written with the status.
C39_FeedbackIsKept ==
    [][/\ (status = "awaiting_re_orchestration" /\ status' = status) =>
             /\ data'["human_feedback"] = data["human_feedback"]
             /\ data'["synthesized_knowledge"] = data["synthesized_knowledge"]
       /\ (AtMain("aged") /\ driver.current_status = "awaiting_re_orchestration") =>
             /\ status = "awaiting_re_orchestration"
             /\ data["human_feedback"].kind \in {"feedback", "json"}]_vars

\* process_feedback is entered in a later cycle, with a graph in the store,
\* for a request the user typed.
C39_Witness ==
    /\ driver.pc = "fed"
    /\ driver.run_cycles > 0
    /\ Depth(MainThread) = 1
    /\ IsMethod(Top(MainThread), "process_feedback")
    /\ Top(MainThread).wrote = <<>>
    /\ status = "awaiting_re_orchestration"
    /\ HasAge(data["synthesized_knowledge"])
    /\ data["human_feedback"] \in UserInputs \ {RefreshFeedback}

-----------------------------------------------------------------------------
(* Properties of the change detection *)

ChangeStatuses == {"changes_detected", "no_changes_detected"}

\* The frame at position p of the stack belongs to the change-detection
\* worker acting on its request.
DetectingChanges(p) == Acting(At(p)) /\ At(p).cb = "ChangeDetectionAgent"

\* C40: the change-detection worker writes nothing but change_detection_report
\* and one of changes_detected, no_changes_detected, and from its entry to its
\* return raw_scraped_data, synthesized_knowledge and current_task keep their
\* values.
C40_ChangeDetectionFrame ==
    [][\A p \in Live :
          DetectingChanges(p) =>
              /\ \A i \in 1..Len(At(p).script) :
                    \/ /\ At(p).script[i].c = "set_data"
                       /\ At(p).script[i].key = "change_detection_report"
                    \/ /\ At(p).script[i].c = "set_status"
                       /\ At(p).script[i].val.s \in ChangeStatuses
              /\ \A i \in 1..Len(At(p).wrote) : At(p).wrote[i] \in ChangeStatuses
              /\ \A k \in {"raw_scraped_data", "synthesized_knowledge", "current_task"} :
                    data'[k] = data[k]]_vars

\* The worker has compared a fresh page with the graph in the store, found a
\* new article, and is at its end.
C40_Witness ==
    \E p \in Live :
        /\ DetectingChanges(p)
        /\ p[2] = Len(stack[p[1]])
        /\ Finished(At(p))
        /\ At(p).wrote = <<"changes_detected">>
        /\ Truthy(data["change_detection_report"])
        /\ HasAge(data["synthesized_knowledge"])
        /\ data["synthesized_knowledge"].page = 1
        /\ data["raw_scraped_data"] = Raw(TRUE, 1)

====
